---- MODULE Spec2Model ----
(***************************************************************************)
(* A model of src/topk.go: the Filtered Space-Saving TopK stream.          *)
(*                                                                         *)
(* Go slices and arrays are 0-based; the sequences below are 1-based, so   *)
(* slot i of the code is element i+1 of the sequence.  Every operator that *)
(* takes a slot or cell index takes the code's 0-based index.              *)
(***************************************************************************)
EXTENDS Integers, Sequences, FiniteSets, TLC

(***************************************************************************)
(* Bounds of the model.                                                    *)
(***************************************************************************)
\* New(n) is called with n in -1..MaxN.
MaxN == 3
\* The sum of the counts of all Insert calls of a run is at most MaxTotal.
MaxTotal == 6

\* The keys of the stream, and the order of Go's string comparison on them.
KeySet == {"a", "b", "c"}
\* The empty string is a key too; only the runs that export and import
\* insert it.
AllKeys == KeySet \cup {""}
KeyOrd == [x \in AllKeys |-> CASE x = "" -> 0 [] x = "a" -> 1
                                       [] x = "b" -> 2 [] x = "c" -> 3]
\* The positive counts an Insert call is given.
CountSet == {1, 2, 3}

\* Scenario A of the specification inserts the counts 5, 3 and 10; runs that
\* use these counts insert at most MaxTotalA in all.
ScenarioCounts == {3, 5, 10}
MaxTotalA == 18
\* The goroutines that call Insert on one Stream; together they insert at
\* most MaxTotalRace in all.
Threads == {1, 2}
MaxTotalRace == 3
\* Runs that export and import insert the keys of CodecKeys, with count 1 and
\* at most MaxTotalIO times in all.
CodecKeys == {"", "b"}
MaxTotalIO == 2

\* "6 is the multiplicative constant from the paper"
AlphaFactor == 6

VARIABLES
    constructed, \* whether New returned a Stream (FALSE: New panicked)
    n,           \* Stream.n
    k,           \* Stream.k, the keys struct: [m |-> map, elts |-> slice]
    alphas,      \* Stream.alphas
    xhashOf,     \* key -> reduce(sip13.Sum64Str(0, 0, key), len(alphas))
    ret,         \* the call that ran last, its arguments and what it returned
    truth,       \* exact reference counter: key -> sum of the counts inserted
    lastCount,   \* key -> Count returned by the latest Insert of the key
    evicted,     \* the keys that have been replaced as minimum at least once
    enteredFree, \* the keys that were given a free slot
    ones,        \* the keys all of whose Insert calls had count 1
    wire,        \* the bytes the latest Encode or GobEncode wrote, as tokens
    snapshot,    \* the Stream's fields when those bytes were written
    sipHash,     \* the key -> cell assignment for the table length New made
    th,          \* per goroutine: where it is in Insert, and its locals
    overlapped   \* two Insert calls have been in progress at the same time

\* What Insert, Estimate and Keys neither read nor write.
aux == <<wire, snapshot, sipHash, th, overlapped>>

vars == <<constructed, n, k, alphas, xhashOf, ret, truth, lastCount, evicted,
          enteredFree, ones, aux>>

(***************************************************************************)
(* Go values.                                                              *)
(***************************************************************************)
\* element{Key, Count, Error}; a zero Error when the literal leaves it out.
element(key, count, error) == [Key |-> key, Count |-> count, Error |-> error]

\* m[key] = v on a Go map: adds the key when it is absent.
MapSet(m, key, v) == [x \in (DOMAIN m) \cup {key} |-> IF x = key THEN v ELSE m[x]]

\* delete(m, key)
MapDelete(m, key) == [x \in (DOMAIN m) \ {key} |-> m[x]]

\* slot i (0-based) of a slice
At(s, i) == s[i + 1]

\* s[i] = v (0-based)
SetAt(s, i, v) == [s EXCEPT ![i + 1] = v]

\* make([]int, len): a slice of zeros
Zeros(len) == [i \in 1..len |-> 0]

(***************************************************************************)
(* The keys struct as a container/heap.Interface.                          *)
(***************************************************************************)
keysLen(tk) == Len(tk.elts)

\* Equal counts ordered by the smaller error first.
keysLessErrorAscending(tk, i, j) ==
    \/ At(tk.elts, i).Count < At(tk.elts, j).Count
    \/ /\ At(tk.elts, i).Count = At(tk.elts, j).Count
       /\ At(tk.elts, i).Error < At(tk.elts, j).Error

keysLess(tk, i, j) ==
    \/ At(tk.elts, i).Count < At(tk.elts, j).Count
    \/ /\ At(tk.elts, i).Count = At(tk.elts, j).Count
       /\ At(tk.elts, i).Error > At(tk.elts, j).Error

\* The slots are exchanged and the index is left as it was.
keysSwapSlotsOnly(tk, i, j) ==
    [m |-> tk.m,
     elts |-> SetAt(SetAt(tk.elts, i, At(tk.elts, j)), j, At(tk.elts, i))]

keysSwap(tk, i, j) ==
    LET elts1 == SetAt(SetAt(tk.elts, i, At(tk.elts, j)), j, At(tk.elts, i))
        m1    == MapSet(tk.m, At(elts1, i).Key, i)
        m2    == MapSet(m1, At(elts1, j).Key, j)
    IN  [m |-> m2, elts |-> elts1]

\* The new key is indexed one past the slot it is appended to.
keysPushIndexPastEnd(tk, e) ==
    [m |-> MapSet(tk.m, e.Key, Len(tk.elts) + 1), elts |-> tk.elts]

\* tk.m[*e.Key] = len(tk.elts)
keysPushIndex(tk, e) ==
    [m |-> MapSet(tk.m, e.Key, Len(tk.elts)), elts |-> tk.elts]

\* tk.elts = append(tk.elts, e)
keysPushAppend(tk, e) == [m |-> tk.m, elts |-> Append(tk.elts, e)]

keysPush(tk, e) == keysPushAppend(keysPushIndex(tk, e), e)

(***************************************************************************)
(* container/heap: up, down, Push and Fix, as Insert calls them.           *)
(***************************************************************************)
\* (j - 1) / 2 with Go's division, which truncates toward zero.
heapParent(j) == IF j = 0 THEN 0 ELSE (j - 1) \div 2

RECURSIVE heapUp(_, _)
heapUp(tk, j) ==
    LET i == heapParent(j)
    IN  IF i = j \/ ~keysLess(tk, j, i)
        THEN tk
        ELSE heapUp(keysSwap(tk, i, j), i)

\* down returns the heap and the slot the element came to rest in.
RECURSIVE heapDownFrom(_, _, _)
heapDownFrom(tk, i, len) ==
    LET j1 == 2 * i + 1
        j2 == j1 + 1
        j  == IF j2 < len /\ keysLess(tk, j2, j1) THEN j2 ELSE j1
    IN  IF j1 >= len
        THEN [tk |-> tk, i |-> i]
        ELSE IF ~keysLess(tk, j, i)
             THEN [tk |-> tk, i |-> i]
             ELSE heapDownFrom(keysSwap(tk, i, j), j, len)

heapDown(tk, i0, len) ==
    LET r == heapDownFrom(tk, i0, len)
    IN  [tk |-> r.tk, moved |-> r.i > i0]

heapPush(tk, x) ==
    LET tk1 == keysPush(tk, x)
    IN  heapUp(tk1, keysLen(tk1) - 1)

\* The changed slot is only moved toward the root.
heapFixUpOnly(tk, i) == heapUp(tk, i)

heapFix(tk, i) ==
    LET d == heapDown(tk, i, keysLen(tk))
    IN  IF ~d.moved THEN heapUp(d.tk, i) ELSE d.tk

(***************************************************************************)
(* sort.Sort(elementsByCountDescending(elts)), as Keys calls it.           *)
(***************************************************************************)
\* Equal counts ordered by the larger key first.
elementsLessKeyDescending(a, b) ==
    \/ a.Count > b.Count
    \/ a.Count = b.Count /\ KeyOrd[a.Key] > KeyOrd[b.Key]

\* elementsByCountDescending.Less, on the two elements it compares.
elementsLess(a, b) ==
    \/ a.Count > b.Count
    \/ a.Count = b.Count /\ KeyOrd[a.Key] < KeyOrd[b.Key]

\* e put before the first element of the sorted s that e is Less than.
RECURSIVE sortInsert(_, _)
sortInsert(s, e) ==
    IF s = <<>> THEN <<e>>
    ELSE IF elementsLess(e, Head(s)) THEN <<e>> \o s
    ELSE <<Head(s)>> \o sortInsert(Tail(s), e)

RECURSIVE sortSort(_)
sortSort(s) ==
    IF s = <<>> THEN <<>> ELSE sortInsert(sortSort(Tail(s)), Head(s))

(***************************************************************************)
(* New.                                                                    *)
(***************************************************************************)
\* make([]element, 0, n0) and make([]int, n0*6) panic when n0 is negative;
\* New checks nothing else, so every n0 >= 0 yields a Stream.
New(n0) ==
    IF n0 < 0
    THEN [ok |-> FALSE, n |-> n0, k |-> [m |-> <<>>, elts |-> <<>>], alphas |-> <<>>]
    ELSE [ok |-> TRUE, n |-> n0, k |-> [m |-> <<>>, elts |-> <<>>],
          alphas |-> Zeros(n0 * AlphaFactor)]

\* reduce(sip13.Sum64Str(0, 0, key), len) lies in 0..len-1, and is 0 when
\* len is 0.  sip13 is a fixed function of the key that the model leaves
\* open: a run picks one assignment of keys to cells and keeps it.  The code
\* uses a cell index only to read and write that cell, so one assignment per
\* collision pattern is enough (the first key in cell 0, the next key in an
\* already used cell or in the next unused one).  The empty key is given
\* cell 0, the cell of the first key.
HashAssignments(len) ==
    IF len = 0
    THEN {[x \in AllKeys |-> 0]}
    ELSE {h \in [AllKeys -> 0..(Cardinality(KeySet) - 1)] :
            h[""] = 0 /\ \A x \in KeySet :
                /\ h[x] < len
                /\ \A c \in 0..(h[x] - 1) :
                     \E y \in KeySet : KeyOrd[y] < KeyOrd[x] /\ h[y] = c}

(***************************************************************************)
(* Insert, Estimate and Keys as functions of the Stream.                   *)
(***************************************************************************)
NoElement == [Key |-> "", Count |-> 0, Error |-> 0]

\* What a call leaves behind: the Stream's fields, the Element returned,
\* whether the call panicked, and the branch of the code that ran.
Outcome(tk, al, e, panic, path, victim) ==
    [k |-> tk, alphas |-> al, e |-> e, panic |-> panic, path |-> path,
     victim |-> victim]

\* The count is overwritten by the increment.
insertTrackedOverwrite(tk, al, x, count) ==
    LET idx   == tk.m[x]
        elts1 == SetAt(tk.elts, idx,
                       [At(tk.elts, idx) EXCEPT !.Count = count])
        e     == At(elts1, idx)
        tk1   == heapFix([m |-> tk.m, elts |-> elts1], idx)
    IN  Outcome(tk1, al, element(e.Key, e.Count, e.Error), FALSE, "tracked", "")

\* The Element is read from the slot after heap.Fix has moved the entries.
insertTrackedReadAfterFix(tk, al, x, count) ==
    LET idx   == tk.m[x]
        elts1 == SetAt(tk.elts, idx,
                       [At(tk.elts, idx) EXCEPT !.Count = @ + count])
        tk1   == heapFix([m |-> tk.m, elts |-> elts1], idx)
        e     == At(tk1.elts, idx)
    IN  Outcome(tk1, al, element(e.Key, e.Count, e.Error), FALSE, "tracked", "")

\* "are we tracking this element?": the key is in the map.
insertTracked(tk, al, x, count) ==
    LET idx   == tk.m[x]
        elts1 == SetAt(tk.elts, idx,
                       [At(tk.elts, idx) EXCEPT !.Count = @ + count])
        e     == At(elts1, idx)
        tk1   == heapFix([m |-> tk.m, elts |-> elts1], idx)
    IN  Outcome(tk1, al, element(e.Key, e.Count, e.Error), FALSE, "tracked", "")

\* The count is also added to the key's cell.
insertFreeAccumulate(tk, al, x, count, xhash) ==
    LET e == element(x, count, 0)
    IN  Outcome(heapPush(tk, e), SetAt(al, xhash, At(al, xhash) + count), e,
                FALSE, "free", "")

\* "there is free space"
insertFree(tk, al, x, count, xhash) ==
    LET e == element(x, count, 0)
    IN  Outcome(heapPush(tk, e), al, e, FALSE, "free", "")

\* The estimate is returned and the cell is left as it was.
insertFilteredNoAccumulate(tk, al, x, count, xhash) ==
    LET e == element(x, At(al, xhash) + count, At(al, xhash))
    IN  Outcome(tk, al, e, FALSE, "filtered", "")

\* the key stays unmonitored: s.alphas[xhash] += count
insertFiltered(tk, al, x, count, xhash) ==
    LET e == element(x, At(al, xhash) + count, At(al, xhash))
    IN  Outcome(tk, SetAt(al, xhash, At(al, xhash) + count), e, FALSE,
                "filtered", "")

\* The evicted count is not written to the table.
archiveMinSkipped(tk, al, mkhash) == al

\* The evicted entry's error is written in place of its count.
archiveMinError(tk, al, mkhash) == SetAt(al, mkhash, At(tk.elts, 0).Error)

\* s.alphas[mkhash] = s.k.elts[0].Count
archiveMin(tk, al, mkhash) == SetAt(al, mkhash, At(tk.elts, 0).Count)

\* "replace the current minimum element"
insertReplace(tk, al, x, count, xhash, mkhash) ==
    LET minKey == At(tk.elts, 0).Key
        al1    == archiveMin(tk, al, mkhash)
        e      == element(x, At(al1, xhash) + count, At(al1, xhash))
        elts1  == SetAt(tk.elts, 0, e)
        m1     == MapSet(MapDelete(tk.m, minKey), x, 0)
        tk1    == heapFix([m |-> m1, elts |-> elts1], 0)
    IN  Outcome(tk1, al1, e, FALSE, "replace", minKey)

\* A full set taken to have room for one more.
hasFreeSpaceOffByOne(tk, cap) == Len(tk.elts) <= cap

\* "can we track more elements?"
hasFreeSpace(tk, cap) == Len(tk.elts) < cap

\* The count of the call is left out of the comparison.
belowMinWithoutCount(tk, al, count, xhash) ==
    At(al, xhash) < At(tk.elts, 0).Count

\* s.alphas[xhash]+count < s.k.elts[0].Count
belowMin(tk, al, count, xhash) == At(al, xhash) + count < At(tk.elts, 0).Count

\* Stream.Insert.  Indexing s.alphas with an index that is not below its
\* length, or s.k.elts[0] of an empty slice, panics before anything is
\* written.
StreamInsert(cap, tk, al, hashOf, x, count) ==
    LET xhash == hashOf[x]
    IN  IF x \in DOMAIN tk.m
        THEN insertTracked(tk, al, x, count)
        ELSE IF hasFreeSpace(tk, cap)
        THEN insertFree(tk, al, x, count, xhash)
        ELSE IF xhash >= Len(al) \/ Len(tk.elts) = 0
        THEN Outcome(tk, al, NoElement, TRUE, "panic", "")
        ELSE IF belowMin(tk, al, count, xhash)
        THEN insertFiltered(tk, al, x, count, xhash)
        ELSE insertReplace(tk, al, x, count, xhash,
                           hashOf[At(tk.elts, 0).Key])

\* An unmonitored key reported with no error.
StreamEstimateNoError(tk, al, hashOf, x) ==
    LET xhash == hashOf[x]
    IN  IF x \in DOMAIN tk.m
        THEN LET e == At(tk.elts, tk.m[x])
             IN  Outcome(tk, al, element(e.Key, e.Count, e.Error), FALSE,
                         "tracked", "")
        ELSE IF xhash >= Len(al)
        THEN Outcome(tk, al, NoElement, TRUE, "panic", "")
        ELSE Outcome(tk, al, element(x, At(al, xhash), 0), FALSE,
                     "untracked", "")

\* Stream.Estimate
StreamEstimate(tk, al, hashOf, x) ==
    LET xhash == hashOf[x]
    IN  IF x \in DOMAIN tk.m
        THEN LET e == At(tk.elts, tk.m[x])
             IN  Outcome(tk, al, element(e.Key, e.Count, e.Error), FALSE,
                         "tracked", "")
        ELSE IF xhash >= Len(al)
        THEN Outcome(tk, al, NoElement, TRUE, "panic", "")
        ELSE Outcome(tk, al, element(x, At(al, xhash), At(al, xhash)), FALSE,
                     "untracked", "")

\* Stream.Keys: a sorted copy of the slots; the slots stay as they are.
StreamKeys(tk) == sortSort(tk.elts)

\* The slots themselves are sorted, and no copy of them.
StreamKeysInPlace(tk) ==
    [k |-> [m |-> tk.m, elts |-> sortSort(tk.elts)], list |-> sortSort(tk.elts)]

\* Stream.Keys as a call: the keys struct it leaves and the list it returns.
\* elts := append([]element(nil), s.k.elts...) is a new slice, so the sort
\* moves nothing in s.k.elts and calls no keys.Swap.
StreamKeysCall(tk) == [k |-> tk, list |-> StreamKeys(tk)]

(***************************************************************************)
(* Encoding and decoding.  The bytes are modelled as the sequence of the   *)
(* values written, each with the kind the reader checks: msgp writes map   *)
(* and array headers, strings and ints; gob writes one value per Encode    *)
(* call.  A read of a value of another kind, or past the end, is an error. *)
(***************************************************************************)
Tok(t, v) == [t |-> t, v |-> v]

NoWire == [fmt |-> "none", toks |-> <<>>, order |-> <<>>]

\* a Stream value: the fields of the struct
StreamOf(cap, tk, al) == [n |-> cap, k |-> tk, alphas |-> al]

\* the zero Stream a decoder is given
ZeroStream == StreamOf(0, [m |-> <<>>, elts |-> <<>>], <<>>)

RECURSIVE writeInts(_)
writeInts(al) ==
    IF al = <<>> THEN <<>>
    ELSE <<Tok("int", Head(al))>> \o writeInts(Tail(al))

\* "for k, v := range tk.m": order is the order the range visits the keys in
RECURSIVE writePairs(_, _)
writePairs(m, order) ==
    IF order = <<>> THEN <<>>
    ELSE <<Tok("str", Head(order)), Tok("int", m[Head(order)])>>
             \o writePairs(m, Tail(order))

RECURSIVE writeElts(_)
writeElts(elts) ==
    IF elts = <<>> THEN <<>>
    ELSE <<Tok("str", Head(elts).Key), Tok("int", Head(elts).Count),
           Tok("int", Head(elts).Error)>> \o writeElts(Tail(elts))

\* keys.EncodeMsgp
keysEncodeMsgp(tk, order) ==
    <<Tok("map", Cardinality(DOMAIN tk.m))>> \o writePairs(tk.m, order)
        \o <<Tok("arr", Len(tk.elts))>> \o writeElts(tk.elts)

\* Stream.EncodeMsgp
StreamEncodeMsgp(s, order) ==
    <<Tok("int", s.n), Tok("arr", Len(s.alphas))>> \o writeInts(s.alphas)
        \o keysEncodeMsgp(s.k, order)

\* encoding/gob sends a struct as the fields that are not the zero value of
\* their type, a pointer as what it points to: a field is <<v>>, or <<>>
\* when it is left out.
gobField(v, zero) == IF v = zero THEN <<>> ELSE <<v>>

gobElement(e) ==
    [Key |-> gobField(e.Key, ""), Count |-> gobField(e.Count, 0),
     Error |-> gobField(e.Error, 0)]

\* The Key of an element whose Key pointer is nil.
NilKey == "<nil>"

\* A field that was left out keeps the value it has in the new element: a
\* nil pointer, or 0.
gobDecodeElement(f) ==
    element(IF f.Key = <<>> THEN NilKey ELSE f.Key[1],
            IF f.Count = <<>> THEN 0 ELSE f.Count[1],
            IF f.Error = <<>> THEN 0 ELSE f.Error[1])

\* Stream.GobEncode: s.n, s.k.m, s.k.elts, s.alphas, one value each
StreamGobEncode(s) ==
    <<Tok("gob int", s.n), Tok("gob map", s.k.m),
      Tok("gob elts", [i \in 1..Len(s.k.elts) |-> gobElement(s.k.elts[i])]),
      Tok("gob ints", s.alphas)>>

\* A read of one value: the value and the next position, or an error with
\* the zero value the reader returns with it.
Read(w, p, t, zero) ==
    IF p <= Len(w) /\ w[p].t = t
    THEN [ok |-> TRUE, v |-> w[p].v, p |-> p + 1]
    ELSE [ok |-> FALSE, v |-> zero, p |-> p]

\* The loop that fills s.alphas: cells i.. of al, from position p.
RECURSIVE readInts(_, _, _, _)
readInts(w, p, al, i) ==
    IF i > Len(al) THEN [ok |-> TRUE, al |-> al, p |-> p]
    ELSE LET r == Read(w, p, "int", 0)
         IN  IF ~r.ok THEN [ok |-> FALSE, al |-> [al EXCEPT ![i] = r.v], p |-> p]
             ELSE readInts(w, r.p, [al EXCEPT ![i] = r.v], i + 1)

\* The loop that fills tk.m: cnt pairs, from position p.
RECURSIVE readPairs(_, _, _, _)
readPairs(w, p, m, cnt) ==
    IF cnt = 0 THEN [ok |-> TRUE, m |-> m, p |-> p]
    ELSE LET rk == Read(w, p, "str", "")
             rv == Read(w, rk.p, "int", 0)
         IN  IF ~rk.ok \/ ~rv.ok THEN [ok |-> FALSE, m |-> m, p |-> p]
             ELSE readPairs(w, rv.p, MapSet(m, rk.v, rv.v), cnt - 1)

\* One round of the loop that fills tk.elts: Key, Count, Error.
readElement(w, p) ==
    LET rk == Read(w, p, "str", "")
        rc == Read(w, rk.p, "int", 0)
        re == Read(w, rc.p, "int", 0)
    IN  IF ~rk.ok THEN [ok |-> FALSE, e |-> element(rk.v, 0, 0), p |-> p]
        ELSE IF ~rc.ok THEN [ok |-> FALSE, e |-> element(rk.v, rc.v, 0), p |-> p]
        ELSE [ok |-> re.ok, e |-> element(rk.v, rc.v, re.v), p |-> re.p]

RECURSIVE readElts(_, _, _, _)
readElts(w, p, elts, i) ==
    IF i > Len(elts) THEN [ok |-> TRUE, elts |-> elts, p |-> p]
    ELSE LET r == readElement(w, p)
         IN  IF ~r.ok THEN [ok |-> FALSE, elts |-> [elts EXCEPT ![i] = r.e], p |-> p]
             ELSE readElts(w, r.p, [elts EXCEPT ![i] = r.e], i + 1)

\* What a decoder leaves: the Stream as far as it was filled, and the error.
Decoded(ok, s) == [ok |-> ok, s |-> s]

\* keys.DecodeMsp, on the Stream s whose n and alphas are already set
keysDecodeMsp(w, p, s) ==
    LET hm == Read(w, p, "map", 0)
        pm == readPairs(w, hm.p, <<>>, hm.v)
        s1 == StreamOf(s.n, [m |-> pm.m, elts |-> s.k.elts], s.alphas)
        he == Read(w, pm.p, "arr", 0)
        pe == readElts(w, he.p, [i \in 1..he.v |-> element("", 0, 0)], 1)
        s2 == StreamOf(s.n, [m |-> pm.m, elts |-> pe.elts], s.alphas)
    IN  IF ~hm.ok THEN Decoded(FALSE, s)
        ELSE IF ~pm.ok THEN Decoded(FALSE, s1)
        ELSE IF ~he.ok THEN Decoded(FALSE, s1)
        ELSE Decoded(pe.ok, s2)

\* Stream.DecodeMsgp (and Stream.Decode, which only wraps the reader)
StreamDecodeMsgp(w, s) ==
    LET rn == Read(w, 1, "int", 0)
        s1 == StreamOf(rn.v, s.k, s.alphas)
        ha == Read(w, rn.p, "arr", 0)
        pa == readInts(w, ha.p, Zeros(ha.v), 1)
        s2 == StreamOf(rn.v, s.k, pa.al)
    IN  IF ~rn.ok THEN Decoded(FALSE, s1)
        ELSE IF ~ha.ok THEN Decoded(FALSE, s1)
        ELSE IF ~pa.ok THEN Decoded(FALSE, s2)
        ELSE keysDecodeMsp(w, pa.p, s2)

\* Stream.GobDecode: s.n, s.k.m, s.k.elts, s.alphas, in this order
StreamGobDecode(w, s) ==
    LET rn == Read(w, 1, "gob int", s.n)
        rm == Read(w, rn.p, "gob map", s.k.m)
        rf == Read(w, rm.p, "gob elts", <<>>)
        re == [ok |-> rf.ok, p |-> rf.p,
               v |-> IF rf.ok
                     THEN [i \in 1..Len(rf.v) |-> gobDecodeElement(rf.v[i])]
                     ELSE s.k.elts]
        ra == Read(w, re.p, "gob ints", s.alphas)
    IN  IF ~rn.ok THEN Decoded(FALSE, s)
        ELSE IF ~rm.ok THEN Decoded(FALSE, StreamOf(rn.v, s.k, s.alphas))
        ELSE IF ~re.ok
        THEN Decoded(FALSE, StreamOf(rn.v, [m |-> rm.v, elts |-> s.k.elts],
                                     s.alphas))
        ELSE Decoded(ra.ok, StreamOf(rn.v, [m |-> rm.v, elts |-> re.v], ra.v))

\* the decoder of the format the bytes were written in
StreamDecode(wr, s) ==
    IF wr.fmt = "gob" THEN StreamGobDecode(wr.toks, s)
    ELSE StreamDecodeMsgp(wr.toks, s)

(***************************************************************************)
(* The state machine.                                                      *)
(***************************************************************************)
RECURSIVE SumOf(_, _)
SumOf(f, S) ==
    IF S = {} THEN 0
    ELSE LET x == CHOOSE y \in S : TRUE IN f[x] + SumOf(f, S \ {x})

\* a goroutine that is not in a call of Insert
Idle == [pc |-> "idle", x |-> "", count |-> 0, idx |-> 0, minKey |-> ""]

NoCall == [op |-> "New", key |-> "", count |-> 0, path |-> "", panic |-> FALSE,
           e |-> NoElement, list |-> <<>>, victim |-> ""]

Init ==
    \E n0 \in -1..MaxN :
        LET s == New(n0)
        IN  /\ constructed = s.ok
            /\ n = s.n
            /\ k = s.k
            /\ alphas = s.alphas
            /\ xhashOf \in HashAssignments(Len(s.alphas))
            /\ ret = [NoCall EXCEPT !.panic = ~s.ok]
            /\ truth = [x \in AllKeys |-> 0]
            /\ lastCount = [x \in AllKeys |-> 0]
            /\ evicted = {}
            /\ enteredFree = {}
            /\ ones = KeySet
            /\ wire = NoWire
            /\ snapshot = [n |-> s.n, k |-> s.k, alphas |-> s.alphas]
            /\ sipHash = [len |-> Len(s.alphas), cells |-> xhashOf]
            /\ th = [t \in Threads |-> Idle]
            /\ overlapped = FALSE

Insert(x, count, cap) ==
    /\ constructed
    /\ SumOf(truth, AllKeys) + count <= cap
    /\ LET o == StreamInsert(n, k, alphas, xhashOf, x, count)
       IN  /\ k' = o.k
           /\ alphas' = o.alphas
           /\ ret' = [op |-> "Insert", key |-> x, count |-> count,
                      path |-> o.path, panic |-> o.panic, e |-> o.e,
                      list |-> <<>>, victim |-> o.victim]
           /\ IF o.panic
              THEN UNCHANGED <<truth, lastCount, evicted, enteredFree, ones>>
              ELSE /\ truth' = [truth EXCEPT ![x] = @ + count]
                   /\ lastCount' = [lastCount EXCEPT ![x] = o.e.Count]
                   /\ evicted' = IF o.path = "replace"
                                 THEN evicted \cup {o.victim} ELSE evicted
                   /\ enteredFree' = IF o.path = "free"
                                     THEN enteredFree \cup {x} ELSE enteredFree
                   /\ ones' = IF count = 1 THEN ones ELSE ones \ {x}
    /\ UNCHANGED <<constructed, n, xhashOf, aux>>

Estimate(x) ==
    /\ constructed
    /\ LET o == StreamEstimate(k, alphas, xhashOf, x)
       IN  /\ k' = o.k
           /\ alphas' = o.alphas
           /\ ret' = [op |-> "Estimate", key |-> x, count |-> 0,
                      path |-> o.path, panic |-> o.panic, e |-> o.e,
                      list |-> <<>>, victim |-> ""]
    /\ UNCHANGED <<constructed, n, xhashOf, truth, lastCount, evicted,
                   enteredFree, ones, aux>>

Keys ==
    /\ constructed
    /\ LET o == StreamKeysCall(k)
       IN  /\ k' = o.k
           /\ ret' = [op |-> "Keys", key |-> "", count |-> 0, path |-> "",
                      panic |-> FALSE, e |-> NoElement, list |-> o.list,
                      victim |-> ""]
    /\ UNCHANGED <<constructed, n, alphas, xhashOf, truth, lastCount,
                   evicted, enteredFree, ones, aux>>

Next ==
    \/ \E x \in KeySet, count \in CountSet : Insert(x, count, MaxTotal)
    \/ \E x \in KeySet : Estimate(x)
    \/ Keys

Spec == Init /\ [][Next]_vars

(***************************************************************************)
(* Export and import.                                                      *)
(***************************************************************************)
\* the orders a range over a map with these keys can visit them in
Orders(S) ==
    {o \in [1..Cardinality(S) -> S] : \A i, j \in DOMAIN o : o[i] = o[j] => i = j}

\* what Encode (fmt "msgp") or GobEncode (fmt "gob") writes for the Stream s
StreamEncode(fmt, s, order) ==
    IF fmt = "gob" THEN StreamGobEncode(s) ELSE StreamEncodeMsgp(s, order)

\* An export of s with its error table cut down to one cell.
ForgedTable(s) == StreamOf(s.n, s.k, <<0>>)

\* An export of s with the key x missing from the index.
ForgedIndex(s, x) ==
    StreamOf(s.n, [m |-> MapDelete(s.k.m, x), elts |-> s.k.elts], s.alphas)

\* The bytes a Decode call is given: the export as written, the export
\* without its last value, or the export of an altered Stream.
PayloadKinds == {"wire", "truncated", "table", "index"}

Payload(kind) ==
    CASE kind = "wire" -> wire.toks
      [] kind = "truncated" -> SubSeq(wire.toks, 1, Len(wire.toks) - 1)
      [] kind = "table" -> StreamEncode(wire.fmt, ForgedTable(snapshot), wire.order)
      [] kind = "index" ->
            StreamEncode(wire.fmt, ForgedIndex(snapshot, Head(wire.order)),
                         Tail(wire.order))

\* reduce(h, len) is 0 when len <= 1; the tables the payloads carry have
\* the length of New's table or one cell at most.
HashFor(len) ==
    IF len = sipHash.len THEN sipHash.cells ELSE [x \in AllKeys |-> 0]

\* the latest Decode returned an error
DecodeFailed == ret.op = "Decode" /\ ret.path = "failed"

\* an element of the monitored set has a nil Key
HasNilKey == \E i \in 1..Len(k.elts) : k.elts[i].Key = NilKey

Encode(fmt, order) ==
    /\ constructed
    /\ ~DecodeFailed /\ ~HasNilKey
    /\ wire' = [fmt |-> fmt, toks |-> StreamEncode(fmt, StreamOf(n, k, alphas), order),
                order |-> order]
    /\ snapshot' = StreamOf(n, k, alphas)
    /\ ret' = [op |-> "Encode", key |-> fmt, count |-> 0, path |-> "",
               panic |-> FALSE, e |-> NoElement, list |-> <<>>, victim |-> ""]
    /\ UNCHANGED <<constructed, n, k, alphas, xhashOf, truth, lastCount,
                   evicted, enteredFree, ones, sipHash, th, overlapped>>

\* Decode or GobDecode on a zero Stream, which the program uses from then on.
Decode(kind) ==
    /\ constructed
    /\ wire.fmt # "none"
    /\ kind = "table" => Len(snapshot.alphas) = AlphaFactor * snapshot.n
    /\ kind = "index" => wire.order # <<>>
    /\ LET d == StreamDecode([fmt |-> wire.fmt, toks |-> Payload(kind)], ZeroStream)
       IN  /\ n' = d.s.n
           /\ k' = d.s.k
           /\ alphas' = d.s.alphas
           /\ xhashOf' = HashFor(Len(d.s.alphas))
           /\ ret' = [op |-> "Decode", key |-> kind, count |-> 0,
                      path |-> IF d.ok THEN "ok" ELSE "failed",
                      panic |-> FALSE, e |-> NoElement, list |-> <<>>,
                      victim |-> ""]
    /\ UNCHANGED <<constructed, truth, lastCount, evicted, enteredFree, ones,
                   aux>>

\* An Insert on a Stream whose Decode did not fail.  A run is not followed
\* into the uses of a Stream that holds a nil Key.
InsertDecoded(x, count, cap) ==
    /\ ~DecodeFailed /\ ~HasNilKey
    /\ Insert(x, count, cap)

\* The runs that export and import.
NextCodec ==
    \/ \E x \in CodecKeys : InsertDecoded(x, 1, MaxTotalIO)
    \/ \E fmt \in {"msgp", "gob"}, order \in Orders(DOMAIN k.m) : Encode(fmt, order)
    \/ \E kind \in PayloadKinds : Decode(kind)

SpecCodec == Init /\ [][NextCodec]_vars

(***************************************************************************)
(* Insert called from two goroutines with no lock.  A call is a sequence   *)
(* of steps, one per statement of Insert and of keys.Push, with the heap   *)
(* calls as single steps; the steps of two calls interleave freely.  The   *)
(* interleavings of the single reads and writes contain these.             *)
(***************************************************************************)
\* a panic in one goroutine ends the program
Running == constructed /\ \A u \in Threads : th[u].pc # "panicked"

At_(t, pc) == Running /\ th[t].pc = pc

Goto(t, pc) == th' = [th EXCEPT ![t].pc = pc]

Return(t) == th' = [th EXCEPT ![t] = Idle]

RaceFrame ==
    UNCHANGED <<constructed, n, xhashOf, ret, lastCount, evicted, enteredFree,
                ones, wire, snapshot, sipHash>>

\* the call Insert(x, count) is made
Call(t, x, count) ==
    /\ At_(t, "idle")
    /\ SumOf(truth, AllKeys) + count <= MaxTotalRace
    /\ th' = [th EXCEPT ![t] = [pc |-> "lookup", x |-> x, count |-> count,
                                idx |-> 0, minKey |-> ""]]
    /\ truth' = [truth EXCEPT ![x] = @ + count]
    /\ overlapped' = (overlapped \/ \E u \in Threads \ {t} : th[u].pc # "idle")
    /\ UNCHANGED <<k, alphas>>
    /\ RaceFrame

\* idx, ok := s.k.m[x]
Lookup(t) ==
    /\ At_(t, "lookup")
    /\ IF th[t].x \in DOMAIN k.m
       THEN th' = [th EXCEPT ![t].pc = "tracked add", ![t].idx = k.m[th[t].x]]
       ELSE Goto(t, "check free")
    /\ UNCHANGED <<k, alphas, truth, overlapped>>
    /\ RaceFrame

\* s.k.elts[idx].Count += count, which panics when the slot idx, indexed by
\* a Push in progress, is not appended yet
TrackedAdd(t) ==
    /\ At_(t, "tracked add")
    /\ IF th[t].idx >= Len(k.elts)
       THEN k' = k /\ Goto(t, "panicked")
       ELSE /\ k' = [k EXCEPT !.elts = SetAt(k.elts, th[t].idx,
                        [At(k.elts, th[t].idx) EXCEPT !.Count = @ + th[t].count])]
            /\ Goto(t, "tracked fix")
    /\ UNCHANGED <<alphas, truth, overlapped>>
    /\ RaceFrame

\* heap.Fix(&s.k, idx)
TrackedFix(t) ==
    /\ At_(t, "tracked fix")
    /\ k' = heapFix(k, th[t].idx)
    /\ Return(t)
    /\ UNCHANGED <<alphas, truth, overlapped>>
    /\ RaceFrame

\* if len(s.k.elts) < s.n
CheckFree(t) ==
    /\ At_(t, "check free")
    /\ IF hasFreeSpace(k, n) THEN Goto(t, "push index") ELSE Goto(t, "compare")
    /\ UNCHANGED <<k, alphas, truth, overlapped>>
    /\ RaceFrame

\* heap.Push: keys.Push's tk.m[*e.Key] = len(tk.elts)
PushIndex(t) ==
    /\ At_(t, "push index")
    /\ k' = keysPushIndex(k, element(th[t].x, th[t].count, 0))
    /\ Goto(t, "push append")
    /\ UNCHANGED <<alphas, truth, overlapped>>
    /\ RaceFrame

\* heap.Push: keys.Push's tk.elts = append(tk.elts, e)
PushAppend(t) ==
    /\ At_(t, "push append")
    /\ k' = keysPushAppend(k, element(th[t].x, th[t].count, 0))
    /\ Goto(t, "push up")
    /\ UNCHANGED <<alphas, truth, overlapped>>
    /\ RaceFrame

\* heap.Push: up(h, h.Len()-1)
PushUp(t) ==
    /\ At_(t, "push up")
    /\ k' = heapUp(k, keysLen(k) - 1)
    /\ Return(t)
    /\ UNCHANGED <<alphas, truth, overlapped>>
    /\ RaceFrame

\* if s.alphas[xhash]+count < s.k.elts[0].Count
Compare(t) ==
    /\ At_(t, "compare")
    /\ IF xhashOf[th[t].x] >= Len(alphas) \/ Len(k.elts) = 0
       THEN Goto(t, "panicked")
       ELSE IF belowMin(k, alphas, th[t].count, xhashOf[th[t].x])
       THEN Goto(t, "filtered")
       ELSE Goto(t, "replace archive")
    /\ UNCHANGED <<k, alphas, truth, overlapped>>
    /\ RaceFrame

\* s.alphas[xhash] += count
FilteredWrite(t) ==
    /\ At_(t, "filtered")
    /\ alphas' = insertFiltered(k, alphas, th[t].x, th[t].count,
                                xhashOf[th[t].x]).alphas
    /\ Return(t)
    /\ UNCHANGED <<k, truth, overlapped>>
    /\ RaceFrame

\* minKey := s.k.elts[0].Key;  s.alphas[mkhash] = s.k.elts[0].Count
ReplaceArchive(t) ==
    /\ At_(t, "replace archive")
    /\ alphas' = archiveMin(k, alphas, xhashOf[At(k.elts, 0).Key])
    /\ th' = [th EXCEPT ![t].pc = "replace slot", ![t].minKey = At(k.elts, 0).Key]
    /\ UNCHANGED <<k, truth, overlapped>>
    /\ RaceFrame

\* s.k.elts[0] = element{x, s.alphas[xhash] + count, s.alphas[xhash]}
ReplaceSlot(t) ==
    /\ At_(t, "replace slot")
    /\ LET h == At(alphas, xhashOf[th[t].x])
       IN  k' = [k EXCEPT !.elts =
                    SetAt(k.elts, 0, element(th[t].x, h + th[t].count, h))]
    /\ Goto(t, "replace index")
    /\ UNCHANGED <<alphas, truth, overlapped>>
    /\ RaceFrame

\* delete(s.k.m, *minKey);  s.k.m[x] = 0
ReplaceIndex(t) ==
    /\ At_(t, "replace index")
    /\ k' = [k EXCEPT !.m = MapSet(MapDelete(k.m, th[t].minKey), th[t].x, 0)]
    /\ Goto(t, "replace fix")
    /\ UNCHANGED <<alphas, truth, overlapped>>
    /\ RaceFrame

\* heap.Fix(&s.k, 0)
ReplaceFix(t) ==
    /\ At_(t, "replace fix")
    /\ k' = heapFix(k, 0)
    /\ Return(t)
    /\ UNCHANGED <<alphas, truth, overlapped>>
    /\ RaceFrame

NextRace ==
    \E t \in Threads :
        \/ \E x \in KeySet, count \in CountSet : Call(t, x, count)
        \/ Lookup(t)
        \/ TrackedAdd(t)
        \/ TrackedFix(t)
        \/ CheckFree(t)
        \/ PushIndex(t)
        \/ PushAppend(t)
        \/ PushUp(t)
        \/ Compare(t)
        \/ FilteredWrite(t)
        \/ ReplaceArchive(t)
        \/ ReplaceSlot(t)
        \/ ReplaceIndex(t)
        \/ ReplaceFix(t)

SpecRace == Init /\ [][NextRace]_vars

\* The runs that insert the counts of Scenario A.
NextA ==
    \/ \E x \in KeySet, count \in ScenarioCounts : Insert(x, count, MaxTotalA)
    \/ \E x \in KeySet : Estimate(x)
    \/ Keys

SpecA == Init /\ [][NextA]_vars

(***************************************************************************)
(* The state the properties speak of.                                      *)
(***************************************************************************)
Monitored == DOMAIN k.m

Entries == {k.elts[i] : i \in 1..Len(k.elts)}

\* the monitored entry of key x
EntryOf(x) == At(k.elts, k.m[x])

\* the error-table cell key x hashes to
CellOf(x) == At(alphas, xhashOf[x])

\* The latest call was an Insert, or an Estimate, that returned an Element.
Returned(op) == ret.op = op /\ ~ret.panic

\* Some other key shares the cell of key x.
Collides(x) == \E y \in KeySet \ {x} : xhashOf[y] = xhashOf[x]

(***************************************************************************)
(* C1. Capacity bound: a Stream built by New(n) never holds more than n    *)
(* monitored entries, in the slots or in the key index, whatever Insert    *)
(* calls were made.                                                        *)
(***************************************************************************)
C1_CapacityBound ==
    constructed => /\ Len(k.elts) <= n
                   /\ Cardinality(DOMAIN k.m) <= n

\* A full set, after an Insert that replaced a monitored key.
C1_Witness ==
    /\ n >= 1
    /\ Len(k.elts) = n
    /\ ret.op = "Insert" /\ ret.path = "replace"

(***************************************************************************)
(* C2. Error bound soundness: for every Element that Insert(key, count) or *)
(* Estimate(key) returns, the key's true cumulative count minus the        *)
(* Element's Error is at most the Element's Count, for every assignment    *)
(* of keys to cells.                                                       *)
(***************************************************************************)
C2_ErrorBoundSound ==
    (Returned("Insert") \/ Returned("Estimate"))
        => truth[ret.key] - ret.e.Error <= ret.e.Count

\* The estimate of a key that was evicted, is not monitored and shares its
\* cell with another key.
C2_Witness ==
    /\ Returned("Estimate")
    /\ ret.key \in evicted
    /\ ret.key \notin Monitored
    /\ Collides(ret.key)
    /\ truth[ret.key] > 0

(***************************************************************************)
(* C3. Monotonic counts: the Count an Insert of a key returns is never     *)
(* below the Count the previous Insert of the same key returned, whatever  *)
(* happened to the key or to its cell in between.                          *)
(***************************************************************************)
C3_MonotonicCounts ==
    [][(ret'.op = "Insert" /\ ~ret'.panic)
          => ret'.e.Count >= lastCount[ret'.key]]_vars

\* An Insert of a key that was monitored, was evicted and is inserted again
\* while it is not monitored.
C3_Witness ==
    /\ Returned("Insert")
    /\ ret.key \in evicted
    /\ ret.path \in {"filtered", "replace"}
    /\ truth[ret.key] > ret.count

(***************************************************************************)
(* The step an Insert(x, count) takes from a state in which the set is     *)
(* full, x is not monitored and x is competitive: h + count is not below   *)
(* the minimum monitored count, h being the value of x's cell before the   *)
(* call.                                                                   *)
(***************************************************************************)
Competitive(x, count) ==
    /\ n >= 1
    /\ Len(k.elts) = n
    /\ x \notin Monitored
    /\ CellOf(x) + count >= At(k.elts, 0).Count

CompetitiveInsertStep ==
    /\ ret'.op = "Insert"
    /\ Competitive(ret'.key, ret'.count)

(***************************************************************************)
(* C4. A competitive Insert(key, count) into a full set builds the entry   *)
(* {key, count: h + count, error: h} and returns (h + count, h), where h   *)
(* is the value of the key's cell when the call starts, also when the key  *)
(* and the evicted minimum share a cell.                                   *)
(***************************************************************************)
C4_ReplacementUsesPreCallCell ==
    [][CompetitiveInsertStep =>
          LET x == ret'.key
              h == CellOf(x)
          IN  /\ ret'.e = element(x, h + ret'.count, h)
              /\ x \in DOMAIN k'.m
              /\ At(k'.elts, k'.m[x]) = element(x, h + ret'.count, h)]_vars

(***************************************************************************)
(* C5. Eviction victim and frame: a competitive Insert into a full set     *)
(* evicts the slot-0 entry (minimum count, and the largest error among     *)
(* the entries of minimum count), makes the new key monitored, keeps the   *)
(* size at n, leaves every other monitored entry as it was, and changes    *)
(* no cell but the evicted key's, which receives the evicted count.        *)
(* Instance: New(2); Insert(a,5); Insert(b,3); Insert(c,10) evicts b and   *)
(* returns (c,10,0) when c does not share b's cell.  Keys() is then        *)
(* [(c,10,0),(a,5,0)], the larger count first (C5_EvictionFrame), and not  *)
(* [(a,5,0),(c,10,0)] as the claim has it (C5_EvictionFrameAsClaimed).     *)
(***************************************************************************)
C5_Frame ==
    CompetitiveInsertStep =>
        LET x   == ret'.key
            min == At(k.elts, 0)
        IN  /\ \A e \in Entries :
                  /\ min.Count <= e.Count
                  /\ e.Count = min.Count => e.Error <= min.Error
            /\ DOMAIN k'.m = (DOMAIN k.m \ {min.Key}) \cup {x}
            /\ Len(k'.elts) = n
            /\ \A y \in DOMAIN k.m \ {min.Key} :
                  At(k'.elts, k'.m[y]) = EntryOf(y)
            /\ At(k'.elts, k'.m[x]).Key = x
            /\ Len(alphas') = Len(alphas)
            /\ \A c \in 0..(Len(alphas) - 1) :
                  At(alphas', c) = IF c = xhashOf[min.Key]
                                   THEN min.Count ELSE At(alphas, c)

\* The state Scenario A ends in: a was given 5, b was given 3, and the
\* Insert of c with 10 has just returned.
ScenarioAEnd ==
    /\ n = 2
    /\ truth["a"] = 5 /\ truth["b"] = 3 /\ truth["c"] = 10
    /\ ret.op = "Insert" /\ ret.key = "c" /\ ret.count = 10
    /\ xhashOf["c"] # xhashOf["b"]

ScenarioAResult(keysReturned) ==
    ScenarioAEnd =>
        /\ ret.e = element("c", 10, 0)
        /\ "b" \notin Monitored
        /\ Monitored = {"a", "c"}
        /\ CellOf("b") = 3
        /\ StreamKeys(k) = keysReturned

C5_EvictionFrame ==
    /\ [][C5_Frame]_vars
    /\ []ScenarioAResult(<<element("c", 10, 0), element("a", 5, 0)>>)

C5_EvictionFrameAsClaimed ==
    /\ [][C5_Frame]_vars
    /\ []ScenarioAResult(<<element("a", 5, 0), element("c", 10, 0)>>)

\* Scenario A has run to its end.
C5_Witness == ScenarioAEnd /\ ret.path = "replace"

(***************************************************************************)
(* C6. Scenario B, as claimed: in a Stream made by New(1), after any       *)
(* stream that mixes N calls Insert(x, 1) with Inserts of other keys, x is *)
(* monitored with Count exactly N and Error 0.  (truth[x] is N when every  *)
(* Insert of x had count 1.)                                               *)
(***************************************************************************)
ExactlyTracked(x) ==
    /\ x \in Monitored
    /\ EntryOf(x).Count = truth[x]
    /\ EntryOf(x).Error = 0

C6_ScenarioBAsClaimed ==
    \A x \in KeySet :
        (n = 1 /\ x \in ones /\ truth[x] >= 1) => ExactlyTracked(x)

(***************************************************************************)
(* C6, amended.  In a Stream made by New(1) an Insert of another key whose *)
(* cell value plus count is not below x's count evicts x.  A key x that    *)
(* took the free slot and has not been evicted is monitored with Count     *)
(* exactly N and Error 0; after an eviction x, when monitored again, has   *)
(* a Count of at least N and a non-zero Error.                             *)
(***************************************************************************)
C6_ScenarioB ==
    \A x \in KeySet :
        (n = 1 /\ x \in ones /\ truth[x] >= 1) =>
            /\ (x \in enteredFree /\ x \notin evicted) => ExactlyTracked(x)
            /\ (x \in evicted /\ x \in Monitored) =>
                   /\ EntryOf(x).Count >= truth[x]
                   /\ EntryOf(x).Error >= 1

\* x was inserted with count 1 more than once, holds the only slot since
\* its first Insert, and another key was inserted and filtered out.
C6_Witness ==
    \E x \in KeySet :
        /\ n = 1 /\ x \in ones /\ truth[x] >= 2
        /\ x \in enteredFree /\ x \notin evicted
        /\ \E y \in KeySet \ {x} : truth[y] >= 1
        /\ ret.op = "Insert" /\ ret.key = x /\ ret.path = "tracked"

(***************************************************************************)
(* C7. Heap-min correctness: in every reachable state no child slot 2i+1   *)
(* or 2i+2 is Less (count ascending, then error descending) than its       *)
(* parent slot i; so slot 0 has the minimum count and, among the entries   *)
(* of minimum count, the largest error.                                    *)
(***************************************************************************)
C7_HeapMin ==
    /\ \A i \in 0..(Len(k.elts) - 1) :
          \A j \in {2 * i + 1, 2 * i + 2} :
              j < Len(k.elts) => ~keysLess(k, j, i)
    /\ \A e \in Entries :
          /\ At(k.elts, 0).Count <= e.Count
          /\ e.Count = At(k.elts, 0).Count => e.Error <= At(k.elts, 0).Error

\* An Insert of a monitored key has raised its count to that of another
\* entry with a different error.
C7_Witness ==
    /\ ret.op = "Insert" /\ ret.path = "tracked"
    /\ Len(k.elts) >= 2
    /\ \E e \in Entries :
          /\ e.Key # ret.key
          /\ e.Count = ret.e.Count
          /\ e.Error # ret.e.Error

(***************************************************************************)
(* C8. New(n) with n <= 0 fails: no Stream comes out of it on which        *)
(* Insert, Estimate or Keys can be called.                                 *)
(***************************************************************************)
C8_NonPositiveCapacityRejected == n <= 0 => ~constructed

(***************************************************************************)
(* C9. Estimate(key) returns the count and error of the key's entry when   *)
(* the key is monitored, and otherwise (h, h), h being the current value   *)
(* of the key's cell; it changes neither the slots, nor the index, nor     *)
(* the error table.  (A Stream has cells when n >= 1.)                     *)
(***************************************************************************)
C9_Estimate ==
    [][(ret'.op = "Estimate" /\ n >= 1) =>
          LET x == ret'.key
          IN  /\ ~ret'.panic
              /\ ret'.e = IF x \in Monitored
                          THEN element(x, EntryOf(x).Count, EntryOf(x).Error)
                          ELSE element(x, CellOf(x), CellOf(x))
              /\ k' = k
              /\ alphas' = alphas]_vars

\* The estimate of an unmonitored key whose cell has been written.
C9_Witness ==
    /\ Returned("Estimate")
    /\ ret.key \notin Monitored
    /\ CellOf(ret.key) > 0

(***************************************************************************)
(* C10. Keys() returns the monitored entries, one Element per monitored    *)
(* key with the entry's count and error, ordered by Count descending and,  *)
(* among equal Counts, by Key ascending.                                   *)
(***************************************************************************)
C10_Keys ==
    ret.op = "Keys" =>
        /\ Len(ret.list) = Len(k.elts)
        /\ {ret.list[i] : i \in 1..Len(ret.list)} = Entries
        /\ \A x \in Monitored :
              Cardinality({i \in 1..Len(ret.list) : ret.list[i].Key = x}) = 1
        /\ \A i \in 1..Len(ret.list) : \A j \in (i + 1)..Len(ret.list) :
              \/ ret.list[i].Count > ret.list[j].Count
              \/ /\ ret.list[i].Count = ret.list[j].Count
                 /\ KeyOrd[ret.list[i].Key] < KeyOrd[ret.list[j].Key]

\* Keys() of two entries of equal count, in another order than the slots.
C10_Witness ==
    /\ ret.op = "Keys"
    /\ Len(ret.list) >= 2
    /\ ret.list[1].Count = ret.list[2].Count
    /\ ret.list # k.elts

(***************************************************************************)
(* C11. Idempotent snapshot: Keys() changes neither the slots and their    *)
(* order, nor the index, nor the error table, and a second Keys() with no  *)
(* Insert in between returns the same list.                                *)
(***************************************************************************)
C11_KeysIdempotent ==
    [][ret'.op = "Keys" =>
          /\ k' = k
          /\ alphas' = alphas
          /\ StreamKeysCall(k').list = ret'.list]_vars

\* Keys() of a set that has seen an eviction, whose slots are in another
\* order than the list returned.
C11_Witness ==
    /\ ret.op = "Keys"
    /\ evicted # {}
    /\ Len(k.elts) >= 2
    /\ ret.list # k.elts

(***************************************************************************)
(* C14. Index/slot consistency: in every reachable state index[key] = i    *)
(* if and only if slot i holds key, the index has exactly one entry per    *)
(* slot, and no key is in two slots.                                       *)
(***************************************************************************)
IndexConsistent(tk) ==
    /\ DOMAIN tk.m = {tk.elts[i].Key : i \in 1..Len(tk.elts)}
    /\ \A i \in 0..(Len(tk.elts) - 1) : tk.m[At(tk.elts, i).Key] = i
    /\ \A x \in DOMAIN tk.m :
          /\ tk.m[x] \in 0..(Len(tk.elts) - 1)
          /\ At(tk.elts, tk.m[x]).Key = x
    /\ Cardinality(DOMAIN tk.m) = Len(tk.elts)
    /\ \A i, j \in 1..Len(tk.elts) :
          tk.elts[i].Key = tk.elts[j].Key => i = j

C14_IndexSlotConsistency == IndexConsistent(k)

\* An evicted key has been inserted again, replaced the minimum and was
\* sifted away from slot 0.
C14_Witness ==
    /\ ret.op = "Insert" /\ ret.path = "replace"
    /\ ret.key \in evicted
    /\ k.m[ret.key] > 0

(***************************************************************************)
(* C15. Error-table cells never decrease: no Insert lowers or resets a     *)
(* cell, and the eviction archival leaves the evicted key's cell at        *)
(* max(previous value of the cell, evicted entry's count), also when an    *)
(* unmonitored key of the same cell had accumulated into it.               *)
(***************************************************************************)
Max(a, b) == IF a >= b THEN a ELSE b

C15_CellsNeverDecrease ==
    [][/\ Len(alphas') = Len(alphas)
       /\ \A c \in 0..(Len(alphas) - 1) : At(alphas', c) >= At(alphas, c)
       /\ CompetitiveInsertStep =>
             LET min == At(k.elts, 0)
             IN  At(alphas', xhashOf[min.Key]) =
                     Max(CellOf(min.Key), min.Count)]_vars

\* An eviction whose victim shares its cell with a key that is not
\* monitored, was never monitored and has been inserted.
C15_Witness ==
    /\ ret.op = "Insert" /\ ret.path = "replace"
    /\ \E y \in KeySet \ (Monitored \cup evicted \cup enteredFree) :
          /\ y # ret.victim
          /\ xhashOf[y] = xhashOf[ret.victim]
          /\ truth[y] > 0

(***************************************************************************)
(* C16. Filtered insert: when the set is full, the key is not monitored    *)
(* and h + count is below the minimum monitored count (h the key's cell    *)
(* before the call), Insert leaves the slots and the index as they were,   *)
(* adds count to that one cell and to no other, and returns                *)
(* (h + count, h).                                                         *)
(***************************************************************************)
NotCompetitive(x, count) ==
    /\ n >= 1
    /\ Len(k.elts) = n
    /\ x \notin Monitored
    /\ CellOf(x) + count < At(k.elts, 0).Count

C16_FilteredInsert ==
    [][(ret'.op = "Insert" /\ NotCompetitive(ret'.key, ret'.count)) =>
          LET x == ret'.key
              h == CellOf(x)
          IN  /\ ~ret'.panic
              /\ k' = k
              /\ x \notin DOMAIN k'.m
              /\ Len(alphas') = Len(alphas)
              /\ \A c \in 0..(Len(alphas) - 1) :
                    At(alphas', c) = IF c = xhashOf[x]
                                     THEN h + ret'.count ELSE At(alphas, c)
              /\ ret'.e = element(x, h + ret'.count, h)]_vars

\* A filtered Insert of a key whose cell already held a count.
C16_Witness ==
    /\ ret.op = "Insert" /\ ret.path = "filtered"
    /\ ret.e.Error > 0
    /\ ret.key \notin Monitored

(***************************************************************************)
(* C17. Insert of a monitored key adds exactly count to the key's entry,   *)
(* keeps its error, keeps the key monitored, leaves every other entry and  *)
(* the whole error table as they were, and returns the updated count and   *)
(* the error of the key's own entry, also when the re-sift moves the       *)
(* entry to another slot.                                                  *)
(***************************************************************************)
C17_TrackedInsert ==
    [][(ret'.op = "Insert" /\ ret'.key \in Monitored) =>
          LET x   == ret'.key
              old == EntryOf(x)
              new == element(x, old.Count + ret'.count, old.Error)
          IN  /\ ~ret'.panic
              /\ DOMAIN k'.m = DOMAIN k.m
              /\ Len(k'.elts) = Len(k.elts)
              /\ At(k'.elts, k'.m[x]) = new
              /\ \A y \in Monitored \ {x} : At(k'.elts, k'.m[y]) = EntryOf(y)
              /\ alphas' = alphas
              /\ ret'.e = new]_vars

\* The key was the minimum in slot 0 before the call and the re-sift has
\* moved its entry to another slot.
C17_Witness ==
    /\ ret.op = "Insert" /\ ret.path = "tracked"
    /\ k.m[ret.key] > 0
    /\ ret.e.Count - ret.count < At(k.elts, 0).Count

(***************************************************************************)
(* C18. Filling free capacity is exact: while fewer than n keys are        *)
(* monitored, Insert(key, count) of an unmonitored key adds the entry      *)
(* {key, count, 0}, returns (count, 0) and leaves the error table alone;   *)
(* so as long as the set has not become full every cell is 0, every entry  *)
(* has error 0 and every monitored count is the key's true count.          *)
(***************************************************************************)
ExactSoFar ==
    /\ \A c \in 0..(Len(alphas) - 1) : At(alphas, c) = 0
    /\ \A e \in Entries : e.Error = 0 /\ e.Count = truth[e.Key]
    /\ \A x \in KeySet \ Monitored : truth[x] = 0

C18_Step ==
    (/\ ret'.op = "Insert"
     /\ constructed
     /\ ret'.key \notin Monitored
     /\ Len(k.elts) < n) =>
        LET x == ret'.key
            e == element(x, ret'.count, 0)
        IN  /\ ~ret'.panic
            /\ ret'.e = e
            /\ DOMAIN k'.m = DOMAIN k.m \cup {x}
            /\ Len(k'.elts) = Len(k.elts) + 1
            /\ At(k'.elts, k'.m[x]) = e
            /\ \A y \in Monitored : At(k'.elts, k'.m[y]) = EntryOf(y)
            /\ alphas' = alphas
            /\ ExactSoFar'

C18_FreeCapacityExact ==
    /\ [][C18_Step]_vars
    /\ []((constructed /\ Len(k.elts) < n) => ExactSoFar)

\* A free slot was filled while another key was already monitored with more
\* than one Insert, and free space is left.
C18_Witness ==
    /\ ret.op = "Insert" /\ ret.path = "free"
    /\ Len(k.elts) >= 2
    /\ Len(k.elts) < n
    /\ \E e \in Entries : e.Key # ret.key /\ e.Count > ret.e.Count

(***************************************************************************)
(* C19. Evicted count dominates the table: in every reachable state with   *)
(* a full set (n >= 1) every cell is at most the minimum monitored count,  *)
(* and no Insert into a full set lowers the minimum monitored count; so    *)
(* the plain assignment of the archival writes max(cell, evicted count).   *)
(***************************************************************************)
Full == constructed /\ n >= 1 /\ Len(k.elts) = n

C19_EvictedCountDominates ==
    /\ [](Full => \A c \in 0..(Len(alphas) - 1) :
                      At(alphas, c) <= At(k.elts, 0).Count)
    /\ [][Full => /\ Full'
                  /\ At(k'.elts, 0).Count >= At(k.elts, 0).Count
                  /\ CompetitiveInsertStep =>
                        At(k.elts, 0).Count >= CellOf(At(k.elts, 0).Key)]_vars

\* The evicted key's cell held a smaller, non-zero count before the
\* archival: a key of the same cell had been filtered before.
C19_Witness ==
    /\ ret.op = "Insert" /\ ret.path = "replace"
    /\ Full
    /\ \E y \in KeySet \ (Monitored \cup evicted \cup enteredFree) :
          /\ xhashOf[y] = xhashOf[ret.victim]
          /\ truth[y] > 0
          /\ truth[y] < CellOf(ret.victim)


(***************************************************************************)
(* C12: an import whose error-table length is not 6 times the capacity, or *)
(* whose monitored set holds a key that the index lacks, fails with a      *)
(* decode error and leaves the target Stream with no part of the payload.  *)
(* The decoders check neither: the import succeeds and fills the Stream.   *)
(***************************************************************************)
C12_MalformedImportRejected ==
    (ret.op = "Decode" /\ ret.key \in {"table", "index"}) =>
        /\ ret.path = "failed"
        /\ StreamOf(n, k, alphas) = ZeroStream

(***************************************************************************)
(* C13: after an export, an import of the bytes into a fresh Stream        *)
(* succeeds and gives a Stream with the fields, the Keys() and the         *)
(* Estimate of every key that the exported Stream had, and whose next      *)
(* Insert, whatever its key and count, returns and leaves what it would    *)
(* on the exported one.  GobDecode leaves the Key of the empty key nil.    *)
(***************************************************************************)
C13_RoundTrip ==
    (ret.op = "Decode" /\ ret.key = "wire") =>
        LET h == HashFor(Len(snapshot.alphas))
        IN  /\ ret.path = "ok"
            /\ StreamOf(n, k, alphas) = snapshot
            /\ StreamKeys(k) = StreamKeys(snapshot.k)
            /\ \A x \in AllKeys :
                   StreamEstimate(k, alphas, xhashOf, x)
                     = StreamEstimate(snapshot.k, snapshot.alphas, h, x)
            /\ \A x \in AllKeys, count \in CountSet :
                   StreamInsert(n, k, alphas, xhashOf, x, count)
                     = StreamInsert(snapshot.n, snapshot.k, snapshot.alphas, h,
                                    x, count)

(***************************************************************************)
(* C20: the capacity bound, the index/slot consistency and the heap order  *)
(* hold between calls as long as no two Insert calls have been in progress *)
(* at the same time.  Once two Insert calls have interleaved, a state      *)
(* between calls with more than n entries, or with an index that disagrees *)
(* with the slots, is reachable (C20_Witness).                             *)
(***************************************************************************)
AllIdle == \A t \in Threads : th[t].pc = "idle"

C20_SingleWriter ==
    (constructed /\ AllIdle /\ ~overlapped) =>
        /\ Len(k.elts) <= n
        /\ IndexConsistent(k)
        /\ \A i \in 0..(Len(k.elts) - 1) :
              \A j \in {2 * i + 1, 2 * i + 2} :
                  j < Len(k.elts) => ~keysLess(k, j, i)

\* Two calls that both saw a free slot have both pushed: the set holds more
\* than n entries, and the index names fewer keys than there are slots.
C20_Witness ==
    /\ constructed /\ AllIdle /\ overlapped
    /\ n >= 1
    /\ Len(k.elts) > n
    /\ ~IndexConsistent(k)

====
